---- MODULE Spec2Model ----
(***************************************************************************)
(* Domino chain solver and its interactive session (src/ИКМ.py and         *)
(* src/scratch_12.py).                                                     *)
(*                                                                         *)
(* Python objects are modelled with a heap: a tile object is an index into *)
(* the sequence `heap`, a Python list of tiles is a sequence of such       *)
(* indices, so aliasing, in-place swaps and in-place flips are visible.    *)
(* Python strings are sequences of one-character strings.  Python list     *)
(* positions are kept 0-based as in the source; position p of a Python     *)
(* list is element p + 1 of the TLA+ sequence.                             *)
(***************************************************************************)
EXTENDS Integers, Sequences, FiniteSets, TLC

\* ------------------------------------------------------------------ bounds
MaxTiles == 3
MaxPip == 1
MaxInputLen == 5
MaxCommandLen == 2
MaxHistory == 2

\* --------------------------------------------------------------- constants
None == 0
MaxValue == 6

VARIABLES
    heap,        \* the tile objects: heap[id] is the object with identity id
    tiles,       \* the caller's list of tiles (object identities)
    given,       \* history: the values of the caller's tiles when the list was made
    chain,       \* what the last call of build_if_possible returned
    outcomes,    \* history: for each call of the solver, whether it returned a chain
    program,     \* the file that is run
    run,         \* which main() of that file is executing
    pc,          \* where main() is: at the menu prompt, at the tile-list prompt, ...
    all_inputs,  \* main's history list
    output,      \* what the last handled input made the program print
    accepted,    \* history: the entries of this session that were well formed
    last_entry,  \* history: what the entry read last at the tile-list prompt was
    exit_seen    \* "exit", "interrupt" or "eof" once exit was chosen or input was
                 \* interrupted or ended ("eof": every later input() raises EOFError)

solverVars == <<heap, tiles, given, chain, outcomes>>

sessionVars == <<program, run, pc, all_inputs, output, accepted, last_entry, exit_seen>>

vars == <<heap, tiles, given, chain, outcomes,
          program, run, pc, all_inputs, output, accepted, last_entry, exit_seen>>

\* ------------------------------------------------------------- DominoTile
DominoTile(value_left, value_right) ==
    [value_left |-> value_left, value_right |-> value_right]

\* value_left = value_right; value_right = value_left, one after the other
TileFlip_Sequential(t) ==
    [value_left |-> t.value_right, value_right |-> t.value_right]

TileFlip(t) ==
    [value_left |-> t.value_right, value_right |-> t.value_left]

TileClone(t) == DominoTile(t.value_left, t.value_right)

DigitChars == <<"0", "1", "2", "3", "4", "5", "6", "7", "8", "9">>

\* the digit after the right one
IntStr_Next(v) == DigitChars[v + 2]

\* str() of a one-digit non-negative int
IntStr(v) == DigitChars[v + 1]

TileStr(t) == <<IntStr(t.value_left), IntStr(t.value_right)>>

\* list(tiles): a new list of the same tile objects
CloneList_Alias(h, ids) == [heap |-> h, ids |-> ids]

\* [tile.clone() for tile in tiles]: fresh objects at the end of the heap
CloneList(h, ids) ==
    [heap |-> h \o [k \in 1..Len(ids) |-> TileClone(h[ids[k]])],
     ids  |-> [k \in 1..Len(ids) |-> Len(h) + k]]

\* ------------------------------------------------- DominoNode, linked chain
DominoNode(tile) == [tile |-> tile, prev_node |-> None, next_node |-> None]

EmptyChain == [node_first |-> None, node_last |-> None, nodes |-> <<>>]

\* the first node of an empty chain is not recorded as node_first
append_tile_NoFirst(c, tile) ==
    LET node == Len(c.nodes) + 1
        added == Append(c.nodes, DominoNode(tile))
    IN  IF c.node_last # None
        THEN [node_first |-> c.node_first,
              node_last  |-> node,
              nodes      |-> [added EXCEPT ![c.node_last].next_node = node,
                                           ![node].prev_node = c.node_last]]
        ELSE [node_first |-> None, node_last |-> node, nodes |-> added]

\* node.prev_node = self.node_last is left out
append_tile_NoPrev(c, tile) ==
    LET node == Len(c.nodes) + 1
        added == Append(c.nodes, DominoNode(tile))
    IN  IF c.node_last # None
        THEN [node_first |-> c.node_first,
              node_last  |-> node,
              nodes      |-> [added EXCEPT ![c.node_last].next_node = node]]
        ELSE [node_first |-> node, node_last |-> node, nodes |-> added]

append_tile(c, tile) ==
    LET node == Len(c.nodes) + 1
        added == Append(c.nodes, DominoNode(tile))
    IN  IF c.node_last # None
        THEN [node_first |-> c.node_first,
              node_last  |-> node,
              nodes      |-> [added EXCEPT ![c.node_last].next_node = node,
                                           ![node].prev_node = c.node_last]]
        ELSE [node_first |-> node, node_last |-> node, nodes |-> added]

RECURSIVE Forward(_, _)
\* the tiles met from node `current` following next_node
Forward(c, current) ==
    IF current = None THEN <<>>
    ELSE <<c.nodes[current].tile>> \o Forward(c, c.nodes[current].next_node)

to_list(h, c) ==
    LET ids == Forward(c, c.node_first)
    IN  [k \in 1..Len(ids) |-> TileStr(h[ids[k]])]

\* ------------------------------------------------------ build_if_possible
\* tiles[start] = tiles[i] alone
SwapItems_OneWay(s, a, b) == [s EXCEPT ![a + 1] = s[b + 1]]

SwapItems(s, a, b) == [s EXCEPT ![a + 1] = s[b + 1], ![b + 1] = s[a + 1]]

PermuteLeaf(st) ==
    LET c == CloneList(st.heap, st.tiles)
    IN  [heap |-> c.heap, tiles |-> st.tiles, result |-> Append(st.result, c.ids)]

RECURSIVE permute(_, _), PermuteLoop(_, _, _)
permute(st, start) ==
    IF start = Len(st.tiles) THEN PermuteLeaf(st)
    ELSE PermuteLoop(st, start, start)

PermuteLoop(st, start, i) ==
    IF i >= Len(st.tiles) THEN st
    ELSE LET s1 == [st EXCEPT !.tiles = SwapItems(st.tiles, start, i)]
             s2 == permute(s1, start + 1)
             s3 == [s2 EXCEPT !.tiles = SwapItems(s2.tiles, start, i)]
         IN  PermuteLoop(s3, start, i + 1)

\* the tiles are popped off the caller's list and never put back
generate_permutations_Consuming(h, ts) ==
    [permute([heap |-> h, tiles |-> ts, result |-> <<>>], 0) EXCEPT !.tiles = <<>>]

generate_permutations(h, ts) ==
    permute([heap |-> h, tiles |-> ts, result |-> <<>>], 0)

FlipAt(st, index) ==
    [st EXCEPT !.heap[st.tiles[index + 1]] = TileFlip(st.heap[st.tiles[index + 1]])]

RECURSIVE flip(_, _)
flip(st, index) ==
    IF index = Len(st.tiles) THEN PermuteLeaf(st)
    ELSE LET s1 == flip(st, index + 1)
             s2 == FlipAt(s1, index)
             s3 == flip(s2, index + 1)
         IN  FlipAt(s3, index)

RECURSIVE flip_FlippedFirst(_, _)
\* the flipped branch is taken before the unflipped one
flip_FlippedFirst(st, index) ==
    IF index = Len(st.tiles) THEN PermuteLeaf(st)
    ELSE LET s1 == FlipAt(st, index)
             s2 == flip_FlippedFirst(s1, index + 1)
             s3 == FlipAt(s2, index)
         IN  flip_FlippedFirst(s3, index + 1)

generate_flips_FlippedFirst(h, ts) ==
    flip_FlippedFirst([heap |-> h, tiles |-> ts, result |-> <<>>], 0)

generate_flips(h, ts) ==
    flip([heap |-> h, tiles |-> ts, result |-> <<>>], 0)

\* range(len(tiles) - 2): the last pair is not compared
is_valid_chain_Short(h, ts) ==
    \A i \in 0..(Len(ts) - 3) :
        h[ts[i + 1]].value_right = h[ts[i + 2]].value_left

is_valid_chain(h, ts) ==
    \A i \in 0..(Len(ts) - 2) :
        h[ts[i + 1]].value_right = h[ts[i + 2]].value_left

RECURSIVE AppendAll(_, _, _)
AppendAll(c, variant, k) ==
    IF k > Len(variant) THEN c
    ELSE AppendAll(append_tile(c, variant[k]), variant, k + 1)

\* The variants of a permutation that gave no chain are unreachable once the
\* loop moves on: their objects, allocated after the first n, are released
\* (what was done to the older objects stays).
Release(h, n) == SubSeq(h, 1, n)

RECURSIVE SearchVariants(_, _, _), SearchPermutations(_, _, _)
\* inner loop: the first variant, from number k on, that is a valid chain
SearchVariants(h, variants, k) ==
    IF k > Len(variants) THEN None
    ELSE IF is_valid_chain(h, variants[k]) THEN k
    ELSE SearchVariants(h, variants, k + 1)

\* outer loop over the permutations, from number k on
SearchPermutations(h, permutations, k) ==
    IF k > Len(permutations) THEN [heap |-> h, chain |-> None, found |-> FALSE]
    ELSE LET gf == generate_flips(h, permutations[k])
             v  == SearchVariants(gf.heap, gf.result, 1)
         IN  IF v # None
             THEN [heap  |-> gf.heap,
                   chain |-> AppendAll(EmptyChain, gf.result[v], 1),
                   found |-> TRUE]
             ELSE SearchPermutations(Release(gf.heap, Len(h)), permutations, k + 1)

build_if_possible(h, ts) ==
    LET gp == generate_permutations(h, ts)
        r  == SearchPermutations(gp.heap, gp.result, 1)
    IN  [heap |-> r.heap, tiles |-> gp.tiles, chain |-> r.chain, found |-> r.found]

\* ------------------------------------------------- main: reading an entry
\* The characters of the model.  "sup2" stands for U+00B2 (superscript two):
\* str.isdigit() is True for it and int() raises ValueError on it.
AsciiDigits == {DigitChars[k] : k \in 1..Len(DigitChars)}

Whitespace == {" "}

RECURSIVE LStrip(_), RStrip(_)
LStrip(s) == IF s # <<>> /\ Head(s) \in Whitespace THEN LStrip(Tail(s)) ELSE s

RStrip(s) ==
    IF s # <<>> /\ s[Len(s)] \in Whitespace THEN RStrip(SubSeq(s, 1, Len(s) - 1)) ELSE s

\* str.strip()
StrStrip(s) == RStrip(LStrip(s))

RECURSIVE StrSplit(_, _)
\* str.split(","): `field` is the part read so far
StrSplit(s, field) ==
    IF s = <<>> THEN <<field>>
    ELSE IF Head(s) = "," THEN <<field>> \o StrSplit(Tail(s), <<>>)
    ELSE StrSplit(Tail(s), Append(field, Head(s)))

\* str.isdigit()
IsDigit(s) == s # <<>> /\ \A k \in 1..Len(s) : s[k] \in AsciiDigits \cup {"sup2"}

\* int() of one character: a number, or a ValueError
IntRaises(c) == c \notin AsciiDigits

IntOf(c) == CHOOSE v \in 0..9 : DigitChars[v + 1] = c

\* `and` for `or`: rejected only when both values are too large
OutOfRange_And(first_variant, a, b) == a > MaxValue /\ b > MaxValue

\* the range test of the tile values, as the running main() writes it
OutOfRange(first_variant, a, b) ==
    IF first_variant
    THEN ~(0 <= a /\ a <= MaxValue /\ 0 <= b /\ b <= MaxValue)
    ELSE a > MaxValue \/ b > MaxValue

RECURSIVE ParseParts(_, _, _, _)
\* the loop over the parts, from part number k on; ts are the tiles made so far
ParseParts(first_variant, parts, k, ts) ==
    IF k > Len(parts) THEN [status |-> "valid", tiles |-> ts]
    ELSE LET part == parts[k]
         IN  IF Len(part) # 2 \/ ~IsDigit(part)
             THEN [status |-> "format_error", tiles |-> ts]
             ELSE IF IntRaises(part[1]) \/ IntRaises(part[2])
             THEN [status |-> "ValueError", tiles |-> ts]
             ELSE IF OutOfRange(first_variant, IntOf(part[1]), IntOf(part[2]))
             THEN [status |-> "range_error", tiles |-> ts]
             ELSE ParseParts(first_variant, parts, k + 1,
                             Append(ts, DominoTile(IntOf(part[1]), IntOf(part[2]))))

\* parts = [s.strip() for s in input_str.split(",")] and the loop over them
ParseEntry(first_variant, input_str) ==
    LET fields == StrSplit(input_str, <<>>)
        parts == [k \in 1..Len(fields) |-> StrStrip(fields[k])]
    IN  ParseParts(first_variant, parts, 1, <<>>)

\* enumerate(all_inputs)
ShowLines_FromZero(entries) == [i \in 1..Len(entries) |-> <<i - 1, entries[i]>>]

\* enumerate(all_inputs, 1)
ShowLines(entries) == [i \in 1..Len(entries) |-> <<i, entries[i]>>]

\* what the program printed: a message, or lines
Message(kind) == [kind |-> kind, lines |-> <<>>]

\* no entry was read since the menu
NoEntry == [class |-> "none", tiles_made |-> 0]

\* ------------------------------------------------------------ solver runs
Pips == 0..MaxPip

TileValues == {DominoTile(l, r) : l \in Pips, r \in Pips}

RECURSIVE SeqsUpTo(_, _)
\* the sequences of at most n elements of S
SeqsUpTo(S, n) ==
    IF n = 0 THEN {<<>>}
    ELSE LET shorter == SeqsUpTo(S, n - 1)
         IN  shorter \cup {Append(s, x) : s \in {t \in shorter : Len(t) = n - 1}, x \in S}

NoSession ==
    /\ program = "none"
    /\ run = 0
    /\ pc = "solver"
    /\ all_inputs = <<>>
    /\ output = Message("nothing")
    /\ accepted = <<>>
    /\ last_entry = NoEntry
    /\ exit_seen = "no"

\* a caller that holds a list of at most MaxTiles tiles
SolverInit ==
    /\ heap \in SeqsUpTo(TileValues, MaxTiles)
    /\ tiles = [k \in 1..Len(heap) |-> k]
    /\ given = heap
    /\ chain = None
    /\ outcomes = <<>>
    /\ NoSession

\* chain = build_if_possible(tiles), as call number n of the caller
CallBuild(n) ==
    /\ Len(outcomes) = n - 1
    /\ \E r \in {build_if_possible(heap, tiles)} :
           /\ heap' = r.heap
           /\ tiles' = r.tiles
           /\ chain' = r.chain
           /\ outcomes' = Append(outcomes, r.found)
    /\ UNCHANGED <<given, sessionVars>>

FirstCall == CallBuild(1)

SecondCall == CallBuild(2)

SolverNext == FirstCall \/ SecondCall

SolverSpec == SolverInit /\ [][SolverNext]_vars

\* ------------------------------------------------------- chain building
\* an empty DominoLinkedChain and no tile yet
ChainInit ==
    /\ heap = <<>>
    /\ tiles = <<>>
    /\ given = <<>>
    /\ chain = EmptyChain
    /\ outcomes = <<>>
    /\ NoSession

\* chain.append_tile(tile); tiles and given keep what was appended, in order
AppendTile(h, tile) ==
    /\ Len(tiles) < MaxTiles
    /\ heap' = h
    /\ chain' = append_tile(chain, tile)
    /\ tiles' = Append(tiles, tile)
    /\ given' = Append(given, h[tile])
    /\ UNCHANGED <<outcomes, sessionVars>>

\* a tile made for the call
AppendNewTile ==
    \E value \in TileValues : AppendTile(Append(heap, value), Len(heap) + 1)

\* a tile object that is in the chain already
AppendSameTile ==
    \E tile \in 1..Len(heap) : AppendTile(heap, tile)

ChainNext == AppendNewTile \/ AppendSameTile

ChainSpec == ChainInit /\ [][ChainNext]_vars

\* ------------------------------------------------------------ the session
\* What an entry is, said without the code's parsing: used for the history
\* variables accepted and last_entry only.
Trimmed(s) ==
    LET inked == {k \in 1..Len(s) : s[k] # " "}
    IN  IF inked = {} THEN <<>>
        ELSE SubSeq(s, CHOOSE a \in inked : \A k \in inked : a <= k,
                       CHOOSE b \in inked : \A k \in inked : b >= k)

\* the tokens of s: what stands between two neighbouring commas (or ends)
TokensOf(s) ==
    LET cuts == {0, Len(s) + 1} \cup {k \in 1..Len(s) : s[k] = ","}
    IN  {Trimmed(SubSeq(s, a + 1, b - 1)) :
            <<a, b>> \in {c \in cuts \X cuts :
                            c[1] < c[2] /\ \A k \in cuts : k <= c[1] \/ k >= c[2]}}

WellFormedToken(t) ==
    /\ Len(t) = 2
    /\ \A k \in 1..2 : t[k] \in {DigitChars[v + 1] : v \in 0..MaxValue}

EntryClass(entry) ==
    IF Trimmed(entry) = <<>> THEN "empty"
    ELSE IF \A t \in TokensOf(Trimmed(entry)) : WellFormedToken(t) THEN "wellformed"
    ELSE "malformed"

EntryChars == {"0", "1", "7", "a", ",", " ", "sup2"}

Entries == SeqsUpTo(EntryChars, MaxInputLen)

CommandChars == {"1", "2", "3", "4", " "}

\* every line of at most MaxCommandLen characters typed at the menu, as
\* command = input(...).strip() reads it
Commands == {StrStrip(line) : line \in SeqsUpTo(CommandChars, MaxCommandLen)}

\* What one pass of the loop of the add flow finds for the line `entry`, up to
\* the decision `if not valid`: the status, and for a valid entry input_str
\* and the tiles (the locals of a rejected entry are dropped).  The other
\* fields feed the history variables: the class of the entry, how many tiles
\* the loop had made when it stopped and, for a well formed entry, the entry
\* as typed without the blanks around it.
ReadEntry(first_variant, entry) ==
    LET input_str == StrStrip(entry)
        parsed == ParseEntry(first_variant, input_str)
        status == IF input_str = <<>> THEN "empty_error" ELSE parsed.status
        class == EntryClass(entry)
    IN  [status    |-> status,
         input_str |-> IF status = "valid" THEN input_str ELSE <<>>,
         tiles     |-> IF status = "valid" THEN parsed.tiles ELSE <<>>,
         class     |-> class,
         tiles_made |-> IF input_str = <<>> THEN 0 ELSE Len(parsed.tiles),
         said      |-> IF class = "wellformed" THEN Trimmed(entry) ELSE <<>>]

\* every line of at most MaxInputLen characters, as each main() reads it
ReadsFirstVariant == {ReadEntry(TRUE, entry) : entry \in Entries}

ReadsSecondVariant == {ReadEntry(FALSE, entry) : entry \in Entries}

Init ==
    /\ program \in {"IKM", "scratch_12"}
    /\ run = 1
    /\ pc = "menu"
    /\ all_inputs = <<>>
    /\ output = Message("menu")
    /\ heap = <<>>
    /\ tiles = <<>>
    /\ given = <<>>
    /\ chain = None
    /\ outcomes = <<>>
    /\ accepted = <<>>
    /\ last_entry = NoEntry
    /\ exit_seen = "no"

\* input() returns a line (stdin has not ended)
CanRead == exit_seen # "eof"

\* the first main() of scratch_12.py is the one with the other range test
FirstVariant == program = "scratch_12" /\ run = 1

\* main() returns.  In ИКМ.py, and for the second main() of scratch_12.py,
\* the script ends; after the first main() of scratch_12.py the rest of the
\* file runs: it defines the classes again and calls the second main().
EndMain(kind, message) ==
    /\ exit_seen' = kind
    /\ output' = Message(message)
    /\ last_entry' = NoEntry
    /\ UNCHANGED program
    /\ IF program = "scratch_12" /\ run = 1
       THEN /\ run' = 2
            /\ pc' = "menu"
            /\ all_inputs' = <<>>
            /\ accepted' = <<>>
            /\ outcomes' = <<>>
            /\ heap' = <<>>
            /\ tiles' = <<>>
            /\ given' = <<>>
            /\ chain' = None
       ELSE /\ pc' = "exited"
            /\ UNCHANGED <<run, all_inputs, accepted, outcomes, solverVars>>

MenuRead(command) ==
    /\ pc = "menu"
    /\ CanRead
    /\ command \in Commands

ChooseAdd ==
    /\ MenuRead(<<"1">>)
    /\ Len(all_inputs) < MaxHistory
    /\ pc' = "add"
    /\ output' = Message("prompt")
    /\ last_entry' = NoEntry
    /\ UNCHANGED <<program, run, all_inputs, accepted, exit_seen, solverVars>>

ChooseShow ==
    /\ MenuRead(<<"2">>)
    /\ output' = IF all_inputs = <<>> THEN Message("no_lists")
                 ELSE [kind |-> "lists", lines |-> ShowLines(all_inputs)]
    /\ last_entry' = NoEntry
    /\ UNCHANGED <<program, run, pc, all_inputs, accepted, exit_seen, solverVars>>

ChooseExit ==
    /\ MenuRead(<<"3">>)
    /\ EndMain("exit", "bye")

UnknownCommand ==
    /\ pc = "menu"
    /\ CanRead
    /\ Commands \ {<<"1">>, <<"2">>, <<"3">>} # {}
    /\ output' = Message("unknown_command")
    /\ last_entry' = NoEntry
    /\ UNCHANGED <<program, run, pc, all_inputs, accepted, exit_seen, solverVars>>

\* KeyboardInterrupt at the menu prompt or at the tile-list prompt
Interrupt ==
    /\ pc \in {"menu", "add"}
    /\ CanRead
    /\ EndMain("interrupt", "stopped")

\* EOFError at either prompt; every later input() raises it again
EndOfInput ==
    /\ pc \in {"menu", "add"}
    /\ EndMain("eof", "stopped")

\* one pass of the loop of the add flow, for a line read as `read`
ReadTiles(read) ==
    /\ pc = "add"
    /\ CanRead
    /\ last_entry' = [class |-> read.class, tiles_made |-> read.tiles_made]
    /\ accepted' = IF read.class = "wellformed"
                   THEN Append(accepted, read.said) ELSE accepted
    /\ UNCHANGED <<program, run, exit_seen>>
    /\ IF read.status = "ValueError"
       THEN /\ pc' = "crashed"
            /\ output' = Message("ValueError")
            /\ UNCHANGED <<all_inputs, solverVars>>
       ELSE IF read.status # "valid"
       THEN /\ output' = Message(read.status)
            /\ UNCHANGED <<pc, all_inputs, solverVars>>
       ELSE \E r \in {build_if_possible(read.tiles,
                                        [k \in 1..Len(read.tiles) |-> k])} :
            /\ all_inputs' = Append(all_inputs, read.input_str)
            /\ given' = read.tiles
            /\ heap' = r.heap
            /\ tiles' = r.tiles
            /\ chain' = r.chain
            /\ outcomes' = Append(outcomes, r.found)
            /\ output' = IF r.found
                         THEN [kind |-> "can", lines |-> to_list(r.heap, r.chain)]
                         ELSE Message("cannot")
            /\ pc' = "menu"

EnterTiles ==
    \E read \in IF FirstVariant THEN ReadsFirstVariant ELSE ReadsSecondVariant :
        ReadTiles(read)

Next ==
    \/ ChooseAdd
    \/ ChooseShow
    \/ ChooseExit
    \/ UnknownCommand
    \/ Interrupt
    \/ EndOfInput
    \/ EnterTiles

Spec == Init /\ [][Next]_vars

\* ----------------------------------------------------- solver: properties
Called == Len(outcomes) > 0

\* the last call returned a chain (not None)
Returned == Called /\ outcomes[Len(outcomes)]

\* the oriented tiles of the returned chain, first to last
ChainTiles == Forward(chain, chain.node_first)

ChainValues == [k \in 1..Len(ChainTiles) |-> heap[ChainTiles[k]]]

Ends(t) == {t.value_left, t.value_right}

\* the two sequences hold the same tiles, as unordered pairs, equally often
SameTiles(a, b) ==
    \A e \in {Ends(a[k]) : k \in 1..Len(a)} \cup {Ends(b[k]) : k \in 1..Len(b)} :
        Cardinality({k \in 1..Len(a) : Ends(a[k]) = e})
            = Cardinality({k \in 1..Len(b) : Ends(b[k]) = e})

Linked(vs) ==
    \A k \in 1..(Len(vs) - 1) : vs[k].value_right = vs[k + 1].value_left

RECURSIVE CanExtend(_, _, _)
\* the tiles of vs at the positions `rest` can be laid, each in some
\* orientation and in some order, after a tile whose right value is `last`
CanExtend(vs, rest, last) ==
    \/ rest = {}
    \/ \E k \in rest :
          \/ vs[k].value_left = last /\ CanExtend(vs, rest \ {k}, vs[k].value_right)
          \/ vs[k].value_right = last /\ CanExtend(vs, rest \ {k}, vs[k].value_left)

\* some order of all the tiles of vs, with some orientation of each, is linked
Arrangeable(vs) ==
    \/ vs = <<>>
    \/ \E k \in 1..Len(vs) : \E last \in Ends(vs[k]) :
          CanExtend(vs, (1..Len(vs)) \ {k}, last)

\* C1: for a non-empty list of tiles, build_if_possible returns None exactly
\* when no order of the tiles with no choice of orientations is linked.
C1_ExactDecision ==
    (Called /\ given # <<>>) =>
        \A n \in 1..Len(outcomes) : outcomes[n] <=> Arrangeable(given)

C1_Witness ==
    /\ Len(outcomes) = 1
    /\ Len(given) = 3
    /\ ~outcomes[1]
    /\ ~Arrangeable(given)

\* C2: a returned chain has as many tiles as the input, holds the input's
\* tiles (as unordered pairs, duplicates kept) and links every adjacent pair.
C2_ValidChain ==
    Returned =>
        /\ Len(ChainValues) = Len(given)
        /\ SameTiles(ChainValues, given)
        /\ Linked(ChainValues)

\* a chain of three tiles that is neither the input order nor the input's
\* orientations
C2_Witness ==
    /\ Returned
    /\ Len(ChainValues) = 3
    /\ Linked(ChainValues)
    /\ ~Linked(given)
    /\ \E k \in 1..3 : ChainValues[k] \notin {given[j] : j \in 1..3}

\* C3: when build_if_possible has returned, the caller's list holds the same
\* tile objects in the same order with their original values, and no tile of
\* the returned chain is one of the caller's objects.
C3_InputUntouched ==
    Called =>
        /\ tiles = [k \in 1..Len(given) |-> k]
        /\ [k \in 1..Len(tiles) |-> heap[tiles[k]]] = given
        /\ Returned => {ChainTiles[k] : k \in 1..Len(ChainTiles)}
                           \cap {tiles[k] : k \in 1..Len(tiles)} = {}

\* the call returned a chain whose tiles are reordered and flipped copies
C3_Witness ==
    /\ Returned
    /\ Len(given) = 3
    /\ ChainValues # given
    /\ \E k \in 1..3 : ChainValues[k] \notin {given[j] : j \in 1..3}
    /\ [k \in 1..Len(tiles) |-> heap[tiles[k]]] = given

\* C7: for a list of no tile or of one tile the call returns a chain: the
\* empty chain, or the chain of that tile as it was given.
C7_TrivialLists ==
    (Called /\ Len(given) <= 1) =>
        /\ Returned
        /\ to_list(heap, chain) = [k \in 1..Len(given) |-> TileStr(given[k])]
        /\ given = <<>> => chain.node_first = None /\ ChainTiles = <<>>

C7_Witness ==
    /\ Returned
    /\ Len(given) = 1
    /\ to_list(heap, chain) = <<<<"0", "1">>>>

C7_WitnessEmpty ==
    /\ Returned
    /\ given = <<>>
    /\ to_list(heap, chain) = <<>>

\* C8: two calls in a row on the same list both fail or both succeed.
C8_SameOutcomeTwice ==
    Len(outcomes) = 2 => (outcomes[1] <=> outcomes[2])

C8_Witness ==
    /\ Len(outcomes) = 2
    /\ Len(given) = 3
    /\ outcomes[1]
    /\ outcomes[2]
    /\ ChainValues # given

\* ---------------------------------------------- solver: enumeration order
\* the candidates build_if_possible goes through when none is a valid chain,
\* in the order of its two loops, as values
CodeCandidatesFrom(h, permutations, k) ==
    LET gf == generate_flips(h, permutations[k])
    IN  [v \in 1..Len(gf.result) |->
            [p \in 1..Len(gf.result[v]) |-> gf.heap[gf.result[v][p]]]]

RECURSIVE Flatten(_, _)
Flatten(ss, k) == IF k > Len(ss) THEN <<>> ELSE ss[k] \o Flatten(ss, k + 1)

CodeCandidates(vs) ==
    LET gp == generate_permutations(vs, [k \in 1..Len(vs) |-> k])
    IN  Flatten([k \in 1..Len(gp.result) |->
                    CodeCandidatesFrom(gp.heap, gp.result, k)], 1)

RECURSIVE Factorial(_), Pow2(_)
Factorial(n) == IF n = 0 THEN 1 ELSE n * Factorial(n - 1)

Pow2(n) == IF n = 0 THEN 1 ELSE 2 * Pow2(n - 1)

\* s with the elements at the (0-based) positions a and b exchanged
Exchanged(s, a, b) ==
    [k \in 1..Len(s) |-> IF k = a + 1 THEN s[b + 1]
                         ELSE IF k = b + 1 THEN s[a + 1] ELSE s[k]]

RECURSIVE SwapOrder(_, _), SwapOrderFrom(_, _, _)
\* the orders of s in the recursive swap order: position `start` is exchanged
\* with each position i from start on, ascending; s itself is never changed
SwapOrder(s, start) ==
    IF start >= Len(s) THEN <<s>> ELSE SwapOrderFrom(s, start, start)

SwapOrderFrom(s, start, i) ==
    IF i >= Len(s) THEN <<>>
    ELSE SwapOrder(Exchanged(s, start, i), start + 1) \o SwapOrderFrom(s, start, i + 1)

\* in orientation number j (from 0) of n tiles, is the tile at the (0-based)
\* position p flipped: binary counting, the last position the lowest bit
FlippedIn(j, n, p) == (j \div Pow2(n - 1 - p)) % 2 = 1

Oriented(vs, order, j) ==
    [p \in 1..Len(vs) |->
        IF FlippedIn(j, Len(vs), p - 1)
        THEN [value_left  |-> vs[order[p]].value_right,
              value_right |-> vs[order[p]].value_left]
        ELSE vs[order[p]]]

ExpectedOrders(vs) == SwapOrder([k \in 1..Len(vs) |-> k], 0)

ExpectedCandidates(vs) ==
    LET orders == ExpectedOrders(vs)
        m == Pow2(Len(vs))
    IN  [c \in 1..(Len(orders) * m) |->
            Oriented(vs, orders[((c - 1) \div m) + 1], (c - 1) % m)]

FirstLinked(cs) ==
    IF \E c \in 1..Len(cs) : Linked(cs[c])
    THEN CHOOSE c \in 1..Len(cs) : Linked(cs[c]) /\ \A d \in 1..(c - 1) : ~Linked(cs[d])
    ELSE 0

\* C10: the returned chain is the first valid candidate of the enumeration
\* (orders in the recursive swap order; for each order the 2^N orientations,
\* none flipped first, the last position varying fastest), and None is
\* returned only after all N! x 2^N candidates were tried.
C10_FirstCandidate ==
    Len(outcomes) = 1 =>
        LET cs == ExpectedCandidates(given)
            orders == ExpectedOrders(given)
            first == FirstLinked(cs)
        IN  /\ Len(orders) = Factorial(Len(given))
            /\ Cardinality({orders[k] : k \in 1..Len(orders)}) = Len(orders)
            /\ Len(cs) = Factorial(Len(given)) * Pow2(Len(given))
            /\ CodeCandidates(given) = cs
            /\ outcomes[1] <=> first # 0
            /\ outcomes[1] => ChainValues = cs[first]

\* the chain is a candidate of a later order than the first, with a flip
C10_Witness ==
    /\ Len(outcomes) = 1
    /\ outcomes[1]
    /\ Len(given) = 3
    /\ FirstLinked(ExpectedCandidates(given)) > 2 * Pow2(3) + 1
    /\ ChainValues = ExpectedCandidates(given)[FirstLinked(ExpectedCandidates(given))]

\* ---------------------------------------------------- session: properties
\* C4: an entry with a malformed token (not two characters, a character that
\* is no digit, a digit above 6) never reaches the solver and leaves the
\* history as it was, however many tokens before it were well formed.
C4_MalformedRejected ==
    [][(pc = "add" /\ last_entry'.class = "malformed")
          => (all_inputs' = all_inputs /\ outcomes' = outcomes)]_vars

\* an entry was refused at its second token, after a tile was made from the
\* first, with one list already in the history
C4_Witness ==
    /\ pc = "add"
    /\ last_entry = [class |-> "malformed", tiles_made |-> 1]
    /\ output.kind = "range_error"
    /\ Len(all_inputs) = 1
    /\ Len(outcomes) = 1

\* in one run of main(): the history is the well formed entries, in the
\* order they were entered, and show lists them numbered from 1
C5_HistoryState ==
    /\ all_inputs = accepted
    /\ output.kind = "lists"
          => output.lines = [i \in 1..Len(accepted) |-> <<i, accepted[i]>>]

\* in one run of main(): recorded entries stay as they are and where they
\* are; a step that stays at the menu (show, unknown command) changes nothing
C5_HistoryStep ==
    run' = run =>
        /\ Len(all_inputs) <= Len(all_inputs')
        /\ SubSeq(all_inputs', 1, Len(all_inputs)) = all_inputs
        /\ (pc = "menu" /\ pc' = "menu") => all_inputs' = all_inputs

\* C5: the history that show lists is exactly the entries that passed
\* validation, in entry order, numbered from 1, solvable or not; recorded
\* entries are never removed, reordered or changed, and show and unknown
\* commands leave the history unchanged.
C5_History == [](C5_HistoryState) /\ [][C5_HistoryStep]_vars

\* show lists two entries, the first of which the solver could not arrange
C5_Witness ==
    /\ output.kind = "lists"
    /\ Len(output.lines) = 2
    /\ output.lines[1][2] # output.lines[2][2]
    /\ Len(outcomes) = 2
    /\ ~outcomes[1]
    /\ outcomes[2]

\* C6: once exit was chosen, or input was interrupted or ended, the program
\* shows no menu or prompt and reads no input any more.
C6_SessionEnds == exit_seen # "no" => pc = "exited"

\* ------------------------------------------------ solver: round trip
RECURSIVE JoinCommaSpace(_, _)
\* ", ".join(strings), from string number k on
JoinCommaSpace(strings, k) ==
    IF k > Len(strings) THEN <<>>
    ELSE IF k = Len(strings) THEN strings[k]
    ELSE strings[k] \o <<",", " ">> \o JoinCommaSpace(strings, k + 1)

\* C9: the renderings of the tiles of a returned chain each pass the
\* validation (two digit characters, both at most 6), and parsing them gives
\* tiles with the same unordered pairs as the input; the same holds for the
\* line that joins them.
C9_RoundTrip ==
    Returned =>
        LET tokens == to_list(heap, chain)
            parsed == ParseParts(FALSE, tokens, 1, <<>>)
            first == ParseParts(TRUE, tokens, 1, <<>>)
            line == ReadEntry(FALSE, JoinCommaSpace(tokens, 1))
        IN  /\ parsed.status = "valid"
            /\ first = parsed
            /\ Len(parsed.tiles) = Len(tokens)
            /\ SameTiles(parsed.tiles, given)
            /\ given # <<>> => line.status = "valid" /\ line.tiles = parsed.tiles

\* a chain of three tiles that does not render as the input does
C9_Witness ==
    /\ Returned
    /\ Len(given) = 3
    /\ to_list(heap, chain) # [k \in 1..3 |-> TileStr(given[k])]
    /\ ParseParts(FALSE, to_list(heap, chain), 1, <<>>).tiles = ChainValues

\* ------------------------------------------------------ chain: properties
RECURSIVE Backward(_, _, _)
\* the tiles met from node `current` following prev_node, at most `fuel` nodes
Backward(c, current, fuel) ==
    IF current = None \/ fuel = 0 THEN <<>>
    ELSE <<c.nodes[current].tile>>
             \o Backward(c, c.nodes[current].prev_node, fuel - 1)

Reversed(s) == [k \in 1..Len(s) |-> s[Len(s) + 1 - k]]

\* C11: after append_tile for t1..tn on an empty chain, node_first holds t1
\* and has no predecessor, node_last holds tn and has no successor, next_node
\* from node_first visits t1..tn, prev_node from node_last visits tn..t1, the
\* successor of every node x has x as predecessor, and to_list renders t1..tn.
C11_LinkedChain ==
    Len(tiles) > 0 =>
        /\ chain.node_first # None
        /\ chain.node_last # None
        /\ chain.nodes[chain.node_first].tile = tiles[1]
        /\ chain.nodes[chain.node_first].prev_node = None
        /\ chain.nodes[chain.node_last].tile = tiles[Len(tiles)]
        /\ chain.nodes[chain.node_last].next_node = None
        /\ Forward(chain, chain.node_first) = tiles
        /\ Backward(chain, chain.node_last, Len(chain.nodes) + 1) = Reversed(tiles)
        /\ \A x \in 1..Len(chain.nodes) :
              chain.nodes[x].next_node # None
                  => chain.nodes[chain.nodes[x].next_node].prev_node = x
        /\ to_list(heap, chain) = [k \in 1..Len(given) |-> TileStr(given[k])]

\* three tiles were appended, one tile object twice
C11_Witness ==
    /\ Len(tiles) = 3
    /\ Len(chain.nodes) = 3
    /\ tiles[1] = tiles[3]
    /\ tiles[1] # tiles[2]
    /\ Forward(chain, chain.node_first) = tiles
    /\ Backward(chain, chain.node_last, 4) = Reversed(tiles)

\* C12: in the add flow an empty or malformed entry makes the program ask
\* again (no return to the menu, no solver call, history as it was); a return
\* to the menu of the same run of main() comes only with a well formed entry,
\* one solver call and one more history entry; any other way out of the add
\* flow is an interrupt or the end of input.
C12_AddFlow ==
    [][pc = "add" =>
          /\ (last_entry'.class \in {"empty", "malformed"}
                => /\ pc' = "add"
                   /\ all_inputs' = all_inputs
                   /\ outcomes' = outcomes)
          /\ (pc' = "menu" /\ run' = run
                => /\ last_entry'.class = "wellformed"
                   /\ Len(all_inputs') = Len(all_inputs) + 1
                   /\ Len(outcomes') = Len(outcomes) + 1)
          /\ (pc' \notin {"add", "menu"} \/ run' # run
                => /\ last_entry' = NoEntry
                   /\ exit_seen' \in {"interrupt", "eof"})]_vars
====
